---- MODULE Spec2Model ----
(***************************************************************************)
(* Model of vyper/context/namespace.py: the Namespace dictionary subclass  *)
(* with its scope list, the validation of assignments, scope entry and     *)
(* exit, lookup and clear, the use of the Namespace as a context manager   *)
(* and the get_namespace accessor.                                         *)
(*                                                                         *)
(* A name (a Python str) is a sequence of one-character strings, so that   *)
(* the regular expression of validate_assignment, str.lower and str.upper  *)
(* are computed character by character.  A definition is a string.         *)
(***************************************************************************)
EXTENDS Integers, Sequences, FiniteSets, TLC

VARIABLES
    ns,       \* the dict: a function from the bound names to their definitions
    scopes,   \* self._scopes: a sequence of sets of names
    last,     \* the latest call: operation, arguments, outcome
    entered,  \* history: the dict as it was when each open scope was pushed
    depth0,   \* history: the names seen bound while no scope was open,
              \* since construction or the latest clear()
    queried,  \* the providers queried by the latest call, in order
    merged,   \* history: get_mutable_vars was queried by a call before the
              \* latest one, since construction or the latest clear()
    _namespace,   \* the module global of get_namespace: "unset" or an instance
    constructed,  \* history: the number of instances get_namespace constructed
    guards,   \* the `with namespace.enter_scope():` blocks control is inside
              \* of: for each, the number of open scopes before its entry
    pending   \* the exception that is propagating out of a block, or "none"

vars == <<ns, scopes, last, entered, depth0, queried, merged,
          _namespace, constructed, guards, pending>>

\* The variables of get_namespace and of the `with` blocks
singleton == <<_namespace, constructed>>

control == <<guards, pending>>

\* Largest number of simultaneously open scopes explored.
MaxDepth == 2

-----------------------------------------------------------------------------
(* Characters and strings *)

LowerLetters ==
    <<"a","b","c","d","e","f","g","h","i","j","k","l","m",
      "n","o","p","q","r","s","t","u","v","w","x","y","z">>

UpperLetters ==
    <<"A","B","C","D","E","F","G","H","I","J","K","L","M",
      "N","O","P","Q","R","S","T","U","V","W","X","Y","Z">>

Digits == {"0","1","2","3","4","5","6","7","8","9"}

\* A non-ASCII character, written by its code point: KELVIN SIGN.  It is no
\* letter of the ranges a-z and A-Z, its lower case is "k" and it is its own
\* upper case.
KelvinSign == "U+212A"

Range(s) == {s[i] : i \in DOMAIN s}

\* [_a-zA-Z]
HeadChars == {"_"} \cup Range(LowerLetters) \cup Range(UpperLetters)

\* [a-zA-Z0-9_]
TailChars == HeadChars \cup Digits

\* re.match("^[_a-zA-Z][a-zA-Z0-9_]*$", attr): in Python `$` matches at the
\* end of the string and also just before a newline that ends the string.
ReMatch(attr) ==
    /\ Len(attr) >= 1
    /\ attr[1] \in HeadChars
    /\ \/ \A i \in 2..Len(attr) : attr[i] \in TailChars
       \/ /\ Len(attr) >= 2
          /\ attr[Len(attr)] = "\n"
          /\ \A i \in 2..(Len(attr) - 1) : attr[i] \in TailChars

CharLower(c) ==
    IF c = KelvinSign THEN "k" ELSE
    IF \E i \in DOMAIN UpperLetters : UpperLetters[i] = c
    THEN LowerLetters[CHOOSE i \in DOMAIN UpperLetters : UpperLetters[i] = c]
    ELSE c

CharUpper(c) ==
    IF \E i \in DOMAIN LowerLetters : LowerLetters[i] = c
    THEN UpperLetters[CHOOSE i \in DOMAIN LowerLetters : LowerLetters[i] = c]
    ELSE c

\* attr.lower()
StrLower(attr) == [i \in DOMAIN attr |-> CharLower(attr[i])]

\* attr.upper()
StrUpper(attr) == [i \in DOMAIN attr |-> CharUpper(attr[i])]

-----------------------------------------------------------------------------
(* Static registries *)

RESERVED_KEYWORDS == {
    <<"p","u","b","l","i","c">>, <<"e","x","t","e","r","n","a","l">>,
    <<"n","o","n","p","a","y","a","b","l","e">>, <<"c","o","n","s","t","a","n","t">>,
    <<"i","n","t","e","r","n","a","l">>, <<"p","a","y","a","b","l","e">>,
    <<"n","o","n","r","e","e","n","t","r","a","n","t">>, <<"i","f">>, <<"f","o","r">>,
    <<"w","h","i","l","e">>, <<"u","n","t","i","l">>, <<"p","a","s","s">>, <<"d","e","f">>,
    <<"s","e","n","d">>, <<"s","e","l","f","d","e","s","t","r","u","c","t">>,
    <<"a","s","s","e","r","t">>, <<"r","a","i","s","e">>, <<"t","h","r","o","w">>,
    <<"i","n","i","t">>, <<"_","i","n","i","t","_">>, <<"_","_","_","i","n","i","t","_","_","_">>,
    <<"_","_","_","_","i","n","i","t","_","_","_","_">>, <<"d","e","f","a","u","l","t">>,
    <<"_","d","e","f","a","u","l","t","_">>,
    <<"_","_","_","d","e","f","a","u","l","t","_","_","_">>,
    <<"_","_","_","_","d","e","f","a","u","l","t","_","_","_","_">>,
    <<"c","h","a","i","n","i","d">>, <<"b","l","o","c","k","h","a","s","h">>,
    <<"t","i","m","e","s","t","a","m","p">>, <<"t","i","m","e","d","e","l","t","a">>,
    <<"t","r","u","e">>, <<"f","a","l","s","e">>, <<"t","h","i","s">>,
    <<"c","o","n","t","i","n","u","e">>, <<"r","a","n","g","e">>, <<"n","o","n","e">>,
    <<"i","n","d","e","x","e","d">>, <<"e","t","h","e","r">>, <<"w","e","i">>,
    <<"f","i","n","n","e","y">>, <<"s","z","a","b","o">>, <<"s","h","a","n","n","o","n">>,
    <<"l","o","v","e","l","a","c","e">>, <<"a","d","a">>, <<"b","a","b","b","a","g","e">>,
    <<"g","w","e","i">>, <<"k","w","e","i">>, <<"m","w","e","i">>, <<"t","w","e","i">>,
    <<"p","w","e","i">>, <<"b","a","l","a","n","c","e">>, <<"c","o","d","e","s","i","z","e">>,
    <<"i","s","_","c","o","n","t","r","a","c","t">>, <<"u","n","i","t","s">>,
    <<"z","e","r","o","_","a","d","d","r","e","s","s">>,
    <<"e","m","p","t","y","_","b","y","t","e","s","3","2">>,
    <<"m","a","x","_","i","n","t","1","2","8">>, <<"m","i","n","_","i","n","t","1","2","8">>,
    <<"m","a","x","_","d","e","c","i","m","a","l">>,
    <<"m","i","n","_","d","e","c","i","m","a","l">>,
    <<"m","a","x","_","u","i","n","t","2","5","6">>, <<"z","e","r","o","_","w","e","i">>
}

\* vyper.opcodes.OPCODES: upper-case mnemonics (a few of them).
OPCODES == {<<"S","T","O","P">>, <<"A","D","D">>, <<"M","U","L">>, <<"S","U","B">>}

-----------------------------------------------------------------------------
(* Bootstrap providers: each yields name -> definition items, in order *)

get_types == << <<  <<"i","n","t","1","2","8">>, "type" >> >>

get_constant_vars == << <<  <<"m","s","g">>, "constant_env" >> >>

get_builtin_functions == << <<  <<"s","e","n","d">>, "builtin_fn" >> >>

get_mutable_vars == << <<  <<"s","e","l","f">>, "mutable_env" >> >>

-----------------------------------------------------------------------------
(* Outcomes of a call: a returned value or a raised exception *)

Return(v) == [exc |-> "none", msg |-> "", value |-> v]

Raise(e, m, v) == [exc |-> e, msg |-> m, value |-> v]

Raised(r) == r.exc # "none"

-----------------------------------------------------------------------------
(* The dict part of the Namespace: a function from the bound names *)

EmptyDict == [k \in {} |-> "None"]

DictSet(d, k, v) == [x \in (DOMAIN d) \cup {k} |-> IF x = k THEN v ELSE d[x]]

DictDel(d, K) == [x \in (DOMAIN d) \ K |-> d[x]]

\* [x for i in self._scopes for x in i]; only membership in it is tested
Flatten(sc) == UNION Range(sc)

\* Namespace.validate_assignment
validate_assignment(d, sc, attr) ==
    IF ~ReMatch(attr)
    THEN Return("StructureException")
    ELSE IF attr \in DOMAIN d
    THEN IF attr \notin Flatten(sc)
         THEN Raise("NamespaceCollision", "it is a builtin", "None")
         ELSE Raise("NamespaceCollision", "has already been declared", d[attr])
    ELSE IF sc = <<>>
    THEN Return("None")
    ELSE IF StrLower(attr) \in RESERVED_KEYWORDS \/ StrUpper(attr) \in OPCODES
    THEN Raise("StructureException", "is a reserved keyword", "None")
    ELSE Return("None")

\* __setitem__ recording the name in the outermost scope instead of the last
setitem_outermost(d, sc, attr, obj) ==
    LET v == validate_assignment(d, sc, attr) IN
    IF Raised(v)
    THEN [ns |-> d, scopes |-> sc, res |-> v]
    ELSE [ns |-> DictSet(d, attr, obj),
          scopes |-> IF sc # <<>>
                     THEN [sc EXCEPT ![1] = @ \cup {attr}]
                     ELSE sc,
          res |-> Return("None")]

\* Namespace.__setitem__
setitem(d, sc, attr, obj) ==
    LET v == validate_assignment(d, sc, attr) IN
    IF Raised(v)
    THEN [ns |-> d, scopes |-> sc, res |-> v]
    ELSE [ns |-> DictSet(d, attr, obj),
          scopes |-> IF sc # <<>>
                     THEN [sc EXCEPT ![Len(sc)] = @ \cup {attr}]
                     ELSE sc,
          res |-> Return("None")]

\* Namespace.update: the items are set in order, the first exception ends it
RECURSIVE update(_, _, _)
update(d, sc, items) ==
    IF items = <<>>
    THEN [ns |-> d, scopes |-> sc, res |-> Return("None")]
    ELSE LET r == setitem(d, sc, Head(items)[1], Head(items)[2]) IN
         IF Raised(r.res) THEN r ELSE update(r.ns, r.scopes, Tail(items))

\* Namespace.__init__ run on an instance whose dict holds d: the scope list
\* is emptied first, then the three providers are queried and merged in turn
init_on(d) ==
    LET r1 == update(d, <<>>, get_types) IN
    IF Raised(r1.res)
    THEN [ns |-> r1.ns, scopes |-> r1.scopes, res |-> r1.res,
          queried |-> <<"get_types">>]
    ELSE
    LET r2 == update(r1.ns, r1.scopes, get_constant_vars) IN
    IF Raised(r2.res)
    THEN [ns |-> r2.ns, scopes |-> r2.scopes, res |-> r2.res,
          queried |-> <<"get_types", "get_constant_vars">>]
    ELSE
    LET r3 == update(r2.ns, r2.scopes, get_builtin_functions) IN
    [ns |-> r3.ns, scopes |-> r3.scopes, res |-> r3.res,
     queried |-> <<"get_types", "get_constant_vars", "get_builtin_functions">>]

\* Namespace.__init__ on an empty dict: Namespace()
init == init_on(EmptyDict)

\* clear without super().clear(): __init__ runs on the dict as it is
clear_in_place(d) == init_on(d)

\* Namespace.clear: super().clear() empties the dict, then __init__ runs
clear(d) == init_on(DictDel(d, DOMAIN d))

\* Namespace.__enter__
enter(sc) ==
    IF sc = <<>>
    THEN Raise("CompilerPanic",
               "Context manager must be invoked via namespace.enter_scope()", "None")
    ELSE Return("None")

\* __exit__ without the test of an empty scope list: nothing to pop, no error
exit_unchecked(d, sc) ==
    IF sc = <<>>
    THEN {[ns |-> d, scopes |-> sc, key |-> <<>>, res |-> Return("None")]}
    ELSE LET popped == sc[Len(sc)]
             rest == SubSeq(sc, 1, Len(sc) - 1)
         IN IF popped \subseteq DOMAIN d
            THEN {[ns |-> DictDel(d, popped), scopes |-> rest, key |-> <<>>,
                   res |-> Return("None")]}
            ELSE {[ns |-> DictDel(d, done), scopes |-> rest, key |-> k,
                   res |-> Raise("KeyError", "", "None")] :
                     k \in popped \ DOMAIN d,
                     done \in SUBSET (popped \cap DOMAIN d)}

\* Namespace.__exit__: the outcomes it can have.  The popped set is iterated
\* in an order that depends on the hash seed; `del self[key]` raises KeyError
\* on a key that is not bound, after any of the other keys of the set have
\* been deleted.
exit(d, sc) ==
    IF sc = <<>>
    THEN {[ns |-> d, scopes |-> sc, key |-> <<>>,
           res |-> Raise("CompilerPanic", "Bad use of namespace as a context manager",
                         "None")]}
    ELSE LET popped == sc[Len(sc)]
             rest == SubSeq(sc, 1, Len(sc) - 1)
         IN IF popped \subseteq DOMAIN d
            THEN {[ns |-> DictDel(d, popped), scopes |-> rest, key |-> <<>>,
                   res |-> Return("None")]}
            ELSE {[ns |-> DictDel(d, done), scopes |-> rest, key |-> k,
                   res |-> Raise("KeyError", "", "None")] :
                     k \in popped \ DOMAIN d,
                     done \in SUBSET (popped \cap DOMAIN d)}

\* enter_scope undoing its push when the merge raises
enter_scope_atomic(d, sc) ==
    LET sc1 == Append(sc, {}) IN
    IF Len(sc1) = 1
    THEN LET r == update(d, sc1, get_mutable_vars) IN
         IF Raised(r.res)
         THEN [ns |-> d, scopes |-> sc, res |-> r.res,
               queried |-> <<"get_mutable_vars">>]
         ELSE [ns |-> r.ns, scopes |-> r.scopes, res |-> Return("self"),
               queried |-> <<"get_mutable_vars">>]
    ELSE [ns |-> d, scopes |-> sc1, res |-> Return("self"), queried |-> <<>>]

\* enter_scope merging the mutable variables whatever the depth
enter_scope_merging(d, sc) ==
    LET sc1 == Append(sc, {}) IN
    IF Len(sc1) >= 1
    THEN LET r == update(d, sc1, get_mutable_vars) IN
         [ns |-> r.ns, scopes |-> r.scopes,
          res |-> IF Raised(r.res) THEN r.res ELSE Return("self"),
          queried |-> <<"get_mutable_vars">>]
    ELSE [ns |-> d, scopes |-> sc1, res |-> Return("self"), queried |-> <<>>]

\* Namespace.enter_scope
enter_scope(d, sc) ==
    LET sc1 == Append(sc, {}) IN
    IF Len(sc1) = 1
    THEN LET r == update(d, sc1, get_mutable_vars) IN
         [ns |-> r.ns, scopes |-> r.scopes,
          res |-> IF Raised(r.res) THEN r.res ELSE Return("self"),
          queried |-> <<"get_mutable_vars">>]
    ELSE [ns |-> d, scopes |-> sc1, res |-> Return("self"), queried |-> <<>>]

\* __getitem__ without the membership test, answering like dict.get
getitem_unchecked(d, key) ==
    IF key \notin DOMAIN d THEN Return("None") ELSE Return(d[key])

\* Namespace.__getitem__
getitem(d, key) ==
    IF key \notin DOMAIN d
    THEN Raise("UndeclaredDefinition", "has not been declared", "None")
    ELSE Return(d[key])

\* get_namespace constructing a Namespace at every call
get_namespace_fresh(g, n, made) ==
    IF Raised(made.res)
    THEN [global |-> g, constructed |-> n + 1, new |-> FALSE, res |-> made.res]
    ELSE [global |-> ToString(n + 1), constructed |-> n + 1, new |-> TRUE,
          res |-> Return(ToString(n + 1))]

\* get_namespace, with g the global _namespace ("unset": reading it raises
\* NameError), n the number of instances constructed so far and made the
\* outcome of Namespace(); an instance is named by the number of its
\* construction
get_namespace(g, n, made) ==
    IF g # "unset"
    THEN [global |-> g, constructed |-> n, new |-> FALSE, res |-> Return(g)]
    ELSE IF Raised(made.res)
    THEN [global |-> g, constructed |-> n + 1, new |-> FALSE, res |-> made.res]
    ELSE [global |-> ToString(n + 1), constructed |-> n + 1, new |-> TRUE,
          res |-> Return(ToString(n + 1))]

-----------------------------------------------------------------------------
(* Inputs *)

\* x, 1abc, self, send
Names == {<<"x">>, <<"1","a","b","c">>, <<"s","e","l","f">>, <<"s","e","n","d">>}

\* If, add, (KELVIN SIGN)wei
KeywordNames == {<<"I","f">>, <<"a","d","d">>, <<KelvinSign,"w","e","i">>}

\* x, 1abc
BlockNames == {<<"x">>, <<"1","a","b","c">>}

UserDefs == {"IntDef", "BoolDef"}

-----------------------------------------------------------------------------
(* State machine *)

NoCall == [op |-> "new", key |-> <<>>, val |-> "None", res |-> Return("None")]

\* A Namespace right after its construction; get_namespace was not called and
\* control is inside of no `with` block
Init ==
    /\ ns = init.ns
    /\ scopes = <<>>
    /\ last = NoCall
    /\ entered = <<>>
    /\ depth0 = DOMAIN init.ns
    /\ queried = init.queried
    /\ merged = FALSE
    /\ _namespace = "unset"
    /\ constructed = 0
    /\ guards = <<>>
    /\ pending = "none"

\* The names bound in a state where no scope is open
Seen(d, sc) == IF sc = <<>> THEN DOMAIN d ELSE {}

\* get_mutable_vars was queried by the latest call or before it
MergedByNow == merged \/ "get_mutable_vars" \in Range(queried)

\* namespace[attr] = obj, as seen from the instance
InsertCall(attr, obj) ==
    LET r == setitem(ns, scopes, attr, obj) IN
    /\ ns' = r.ns
    /\ scopes' = r.scopes
    /\ last' = [op |-> "insert", key |-> attr, val |-> obj, res |-> r.res]
    /\ UNCHANGED entered
    /\ depth0' = depth0 \cup Seen(ns', scopes')
    /\ queried' = <<>>
    /\ merged' = MergedByNow
    /\ UNCHANGED singleton

\* namespace[key], as seen from the instance
LookupCall(key) ==
    /\ last' = [op |-> "lookup", key |-> key, val |-> "None", res |-> getitem(ns, key)]
    /\ UNCHANGED <<ns, scopes, entered, depth0>>
    /\ queried' = <<>>
    /\ merged' = MergedByNow
    /\ UNCHANGED singleton

\* namespace[attr] = obj, called outside of any `with` block
Insert(attr, obj) == InsertCall(attr, obj) /\ UNCHANGED control

\* namespace[key], called outside of any `with` block
Lookup(key) == LookupCall(key) /\ UNCHANGED control

\* namespace.enter_scope()
EnterScope ==
    /\ Len(scopes) < MaxDepth
    /\ LET r == enter_scope(ns, scopes)
       IN /\ ns' = r.ns
          /\ scopes' = r.scopes
          /\ last' = [op |-> "enter_scope", key |-> <<>>, val |-> "None", res |-> r.res]
          /\ queried' = r.queried
    /\ entered' = Append(entered, ns)
    /\ merged' = MergedByNow
    /\ UNCHANGED depth0
    /\ UNCHANGED <<singleton, control>>

\* namespace.__exit__(None, None, None)
ExitScope ==
    \E o \in exit(ns, scopes) :
       /\ ns' = o.ns
       /\ scopes' = o.scopes
       /\ last' = [op |-> "exit_scope", key |-> o.key, val |-> "None", res |-> o.res]
       /\ entered' = SubSeq(entered, 1, Len(o.scopes))
       /\ depth0' = IF scopes = <<>> THEN depth0 ELSE depth0 \cup Seen(o.ns, o.scopes)
       /\ queried' = <<>>
       /\ merged' = MergedByNow
       /\ UNCHANGED <<singleton, control>>

\* `with namespace: pass`: __enter__, and when it returns the empty block and
\* __exit__(None, None, None)
WithNamespace ==
    LET e == enter(scopes) IN
    IF Raised(e)
    THEN /\ last' = [op |-> "with", key |-> <<>>, val |-> "None", res |-> e]
         /\ queried' = <<>>
         /\ merged' = MergedByNow
         /\ UNCHANGED <<ns, scopes, entered, depth0, singleton, control>>
    ELSE \E o \in exit(ns, scopes) :
         /\ ns' = o.ns
         /\ scopes' = o.scopes
         /\ last' = [op |-> "with", key |-> o.key, val |-> "None", res |-> o.res]
         /\ entered' = SubSeq(entered, 1, Len(o.scopes))
         /\ depth0' = depth0 \cup Seen(o.ns, o.scopes)
         /\ queried' = <<>>
         /\ merged' = MergedByNow
         /\ UNCHANGED <<singleton, control>>

\* namespace.clear()
Clear ==
    LET r == clear(ns) IN
    /\ ns' = r.ns
    /\ scopes' = r.scopes
    /\ last' = [op |-> "clear", key |-> <<>>, val |-> "None", res |-> r.res]
    /\ entered' = <<>>
    /\ depth0' = DOMAIN r.ns
    /\ queried' = r.queried
    /\ merged' = FALSE
    /\ UNCHANGED <<singleton, control>>

Next ==
    \/ \E attr \in Names, obj \in UserDefs : Insert(attr, obj)
    \/ \E key \in Names : Lookup(key)
    \/ EnterScope
    \/ ExitScope
    \/ WithNamespace
    \/ Clear

Spec == Init /\ [][Next]_vars

\* The same operations, driven with names around the reserved words
NextKeywords ==
    \/ \E attr \in KeywordNames, obj \in UserDefs : Insert(attr, obj)
    \/ \E key \in KeywordNames : Lookup(key)
    \/ EnterScope
    \/ ExitScope
    \/ Clear

SpecKeywords == Init /\ [][NextKeywords]_vars

-----------------------------------------------------------------------------
(* The accessor: no instance exists before the first get_namespace() *)

InitSingleton ==
    /\ ns = EmptyDict
    /\ scopes = <<>>
    /\ last = NoCall
    /\ entered = <<>>
    /\ depth0 = {}
    /\ queried = <<>>
    /\ merged = FALSE
    /\ _namespace = "unset"
    /\ constructed = 0
    /\ guards = <<>>
    /\ pending = "none"

\* get_namespace(); ns and scopes are the state of the instance it returns
GetNamespace ==
    LET r == get_namespace(_namespace, constructed, init) IN
    /\ _namespace' = r.global
    /\ constructed' = r.constructed
    /\ last' = [op |-> "get_namespace", key |-> <<>>, val |-> "None", res |-> r.res]
    /\ IF r.new
       THEN /\ ns' = init.ns
            /\ scopes' = init.scopes
            /\ entered' = <<>>
            /\ depth0' = DOMAIN init.ns
            /\ queried' = init.queried
            /\ merged' = FALSE
       ELSE /\ UNCHANGED <<ns, scopes, entered, depth0>>
            /\ queried' = <<>>
            /\ merged' = MergedByNow
    /\ UNCHANGED control

\* get_namespace() and the operations on the instance it returned
NextSingleton ==
    \/ GetNamespace
    \/ /\ _namespace # "unset"
       /\ \E attr \in KeywordNames, obj \in UserDefs : Insert(attr, obj)
    \/ /\ _namespace # "unset"
       /\ \E key \in KeywordNames : Lookup(key)
    \/ _namespace # "unset" /\ EnterScope
    \/ _namespace # "unset" /\ ExitScope
    \/ _namespace # "unset" /\ Clear

SpecSingleton == InitSingleton /\ [][NextSingleton]_vars

-----------------------------------------------------------------------------
(* Blocks governed by the guard: `with namespace.enter_scope(): ...`.  An   *)
(* exception raised in a block propagates through the __exit__ of every    *)
(* enclosing block; __exit__ returns None, so it does not suppress it.     *)

\* `with namespace.enter_scope():` is reached: enter_scope(), then __enter__
WithEnter ==
    /\ pending = "none"
    /\ Len(scopes) < MaxDepth
    /\ LET r == enter_scope(ns, scopes)
           e == enter(r.scopes)
       IN /\ ns' = r.ns
          /\ scopes' = r.scopes
          /\ queried' = r.queried
          /\ last' = [op |-> "with_enter", key |-> <<>>, val |-> "None",
                      res |-> IF Raised(r.res) THEN r.res ELSE e]
          /\ guards' = IF Raised(r.res) \/ Raised(e)
                       THEN guards
                       ELSE Append(guards, Len(scopes))
          /\ pending' = IF Raised(r.res) THEN r.res.exc
                        ELSE IF Raised(e) THEN e.exc ELSE "none"
    /\ entered' = Append(entered, ns)
    /\ merged' = MergedByNow
    /\ UNCHANGED <<depth0, singleton>>

\* A statement of the running code: namespace[attr] = obj
BlockInsert(attr, obj) ==
    /\ pending = "none"
    /\ InsertCall(attr, obj)
    /\ pending' = IF Raised(last'.res) THEN last'.res.exc ELSE "none"
    /\ UNCHANGED guards

\* A statement of the running code: namespace[key]
BlockLookup(key) ==
    /\ pending = "none"
    /\ LookupCall(key)
    /\ pending' = IF Raised(last'.res) THEN last'.res.exc ELSE "none"
    /\ UNCHANGED guards

\* Control leaves the innermost block, at its end or with the exception that
\* is propagating: __exit__ runs; an exception it raises replaces that one
WithExit ==
    /\ guards # <<>>
    /\ \E o \in exit(ns, scopes) :
          /\ ns' = o.ns
          /\ scopes' = o.scopes
          /\ last' = [op |-> "with_exit", key |-> o.key, val |-> "None", res |-> o.res]
          /\ entered' = SubSeq(entered, 1, Len(o.scopes))
          /\ depth0' = depth0 \cup Seen(o.ns, o.scopes)
          /\ pending' = IF Raised(o.res) THEN o.res.exc ELSE pending
    /\ guards' = SubSeq(guards, 1, Len(guards) - 1)
    /\ queried' = <<>>
    /\ merged' = MergedByNow
    /\ UNCHANGED singleton

\* The exception has left every block: the caller handles it
Caught ==
    /\ guards = <<>>
    /\ pending # "none"
    /\ pending' = "none"
    /\ last' = [op |-> "caught", key |-> <<>>, val |-> "None", res |-> Return("None")]
    /\ queried' = <<>>
    /\ merged' = MergedByNow
    /\ UNCHANGED <<ns, scopes, entered, depth0, guards, singleton>>

NextBlocks ==
    \/ WithEnter
    \/ \E attr \in BlockNames, obj \in UserDefs : BlockInsert(attr, obj)
    \/ \E key \in BlockNames : BlockLookup(key)
    \/ WithExit
    \/ Caught

SpecBlocks == Init /\ [][NextBlocks]_vars

-----------------------------------------------------------------------------
(* Vocabulary of the properties *)

\* The identifier grammar: first character `_` or a letter, later characters
\* `_`, a letter or a digit.
IsIdentifier(attr) ==
    /\ Len(attr) >= 1
    /\ attr[1] \in {"_"} \cup Range(LowerLetters) \cup Range(UpperLetters)
    /\ \A i \in 2..Len(attr) :
          attr[i] \in {"_"} \cup Range(LowerLetters) \cup Range(UpperLetters) \cup Digits

\* The name's lowercased form is a reserved keyword or its uppercased form
\* is an opcode.
IsReservedName(attr) ==
    StrLower(attr) \in RESERVED_KEYWORDS \/ StrUpper(attr) \in OPCODES

Innermost == scopes[Len(scopes)]

StateUnchanged == ns' = ns /\ scopes' = scopes

-----------------------------------------------------------------------------
(* Properties *)

\* C1: exit_scope on a non-empty scope list pops exactly the innermost set
\* and leaves the mapping equal to the mapping at the moment that scope was
\* pushed: the bindings of the enclosing scopes and of depth 0 are intact, the
\* names inserted in the exited scope are unbound.
ExitRestoresEntryMapping ==
    [][(last'.op = "exit_scope" /\ scopes # <<>>)
        => /\ scopes' = SubSeq(scopes, 1, Len(scopes) - 1)
           /\ ns' = entered[Len(entered)]]_vars

NeverOverwritten ==
    [][/\ (last'.op = "insert" /\ last'.key \in DOMAIN ns)
          => /\ Raised(last'.res)
             /\ last'.key \in DOMAIN ns'
             /\ ns'[last'.key] = ns[last'.key]
       /\ last'.op # "clear"
          => \A n \in (DOMAIN ns) \cap (DOMAIN ns') : ns'[n] = ns[n]]_vars

\* C4 (I1): the sets of the scope list are pairwise disjoint, and a name bound
\* at depth 0 is recorded in none of them.
ScopeSetsDisjoint ==
    /\ \A i, j \in DOMAIN scopes : i # j => scopes[i] \cap scopes[j] = {}
    /\ depth0 \cap Flatten(scopes) = {}

\* C5 (I3): a name bound while no scope is open stays bound until clear().
Depth0StaysBound == depth0 \subseteq DOMAIN ns

\* C6: an insert of a name that fails the identifier grammar raises
\* StructureException and changes neither the mapping nor the scope list.
MalformedNameRejected ==
    [][(last'.op = "insert" /\ ~IsIdentifier(last'.key))
        => (last'.res.exc = "StructureException" /\ StateUnchanged)]_vars

\* C7: an insert of a name that is bound and recorded in no open scope raises
\* NamespaceCollision (it is a builtin) and changes nothing.
BuiltinProtected ==
    [][(/\ last'.op = "insert"
        /\ last'.key \in DOMAIN ns
        /\ last'.key \notin Flatten(scopes))
        => /\ last'.res = Raise("NamespaceCollision", "it is a builtin", "None")
           /\ StateUnchanged]_vars

\* C8: an insert of a name that is bound and recorded in an open scope raises
\* NamespaceCollision (already declared, with the existing definition) and
\* changes nothing.
NoShadowing ==
    [][(/\ last'.op = "insert"
        /\ last'.key \in DOMAIN ns
        /\ last'.key \in Flatten(scopes))
        => /\ last'.res = Raise("NamespaceCollision", "has already been declared",
                                ns[last'.key])
           /\ StateUnchanged]_vars

\* C9: an insert of an unbound reserved name raises StructureException and
\* changes nothing while a scope is open; with no scope open it succeeds, and
\* the name then stays bound until clear().
ReservedOnlyInsideScopes ==
    [][/\ (/\ last'.op = "insert"
           /\ last'.key \notin DOMAIN ns
           /\ IsReservedName(last'.key))
          => IF scopes # <<>>
             THEN last'.res.exc = "StructureException" /\ StateUnchanged
             ELSE /\ ~Raised(last'.res)
                  /\ ns' = DictSet(ns, last'.key, last'.val)
                  /\ scopes' = scopes
       /\ \A n \in depth0' : IsReservedName(n) => n \in DOMAIN ns']_vars

\* C10: lookup returns the bound definition of a bound name, raises
\* UndeclaredDefinition for a name that is not bound, and changes neither the
\* mapping nor the scope list.
LookupContract ==
    [][last'.op = "lookup"
        => /\ last'.key \in DOMAIN ns => last'.res = Return(ns[last'.key])
           /\ last'.key \notin DOMAIN ns
              => (last'.res.exc = "UndeclaredDefinition" /\ last'.res.value = "None")
           /\ StateUnchanged]_vars

\* C10: a lookup of x failed inside an open scope.
LookupFailedInScope ==
    /\ last.op = "lookup"
    /\ last.key = <<"x">>
    /\ last.res.exc = "UndeclaredDefinition"
    /\ scopes # <<>>

\* The items of the three providers of __init__, and of the fourth one
BootstrapItems == get_types \o get_constant_vars \o get_builtin_functions

BootstrapNames == {BootstrapItems[i][1] : i \in DOMAIN BootstrapItems}

MutableNames == {get_mutable_vars[i][1] : i \in DOMAIN get_mutable_vars}

\* C11: exit_scope with no scope open raises CompilerPanic and changes neither
\* the mapping nor the (empty) scope list.
ExitOnEmptyPanics ==
    [][(last'.op = "exit_scope" /\ scopes = <<>>)
        => (last'.res.exc = "CompilerPanic" /\ StateUnchanged)]_vars

\* C11: exit_scope panicked at depth 0 while the user binding of x was there.
ExitPanicked ==
    /\ last.op = "exit_scope"
    /\ last.res.exc = "CompilerPanic"
    /\ scopes = <<>>
    /\ <<"x">> \in DOMAIN ns

\* C12: a successful enter_scope on an empty scope list pushes one set and
\* binds the mutable-environment names, recorded in that set; on a non-empty
\* list it pushes an empty set and binds nothing; the mutable-environment
\* names recorded in the outermost set are bound while that scope is open and
\* unbound once it has been exited.
MutableBoundWhileOpen ==
    [][/\ (last'.op = "enter_scope" /\ scopes = <<>> /\ ~Raised(last'.res))
          => /\ Len(scopes') = 1
             /\ MutableNames \subseteq scopes'[1]
             /\ \A i \in DOMAIN get_mutable_vars :
                   /\ get_mutable_vars[i][1] \in DOMAIN ns'
                   /\ ns'[get_mutable_vars[i][1]] = get_mutable_vars[i][2]
       /\ (last'.op = "enter_scope" /\ scopes # <<>>)
          => (scopes' = Append(scopes, {}) /\ ns' = ns)
       /\ (scopes' # <<>> /\ MutableNames \subseteq scopes'[1])
          => MutableNames \subseteq DOMAIN ns'
       /\ (last'.op = "exit_scope" /\ Len(scopes) = 1 /\ MutableNames \subseteq scopes[1])
          => MutableNames \cap DOMAIN ns' = {}]_vars

\* C13: clear() leaves the state of a freshly constructed Namespace: no scope
\* open, and exactly the items of the three providers bound.
ClearIsFresh ==
    [][last'.op = "clear"
        => /\ ~Raised(last'.res)
           /\ scopes' = <<>>
           /\ DOMAIN ns' = BootstrapNames
           /\ \A i \in DOMAIN BootstrapItems :
                 ns'[BootstrapItems[i][1]] = BootstrapItems[i][2]
           /\ ns' = init.ns]_vars

\* C13: clear() has just returned.
WasCleared ==
    /\ last.op = "clear"
    /\ ~Raised(last.res)
    /\ scopes = <<>>
    /\ <<"x">> \notin DOMAIN ns

\* C17: an accepted insert binds the name to the definition and changes no
\* other binding; it adds the name to the innermost scope set and changes no
\* other set, and with no scope open it changes no set at all.
InsertFrame ==
    [][(last'.op = "insert" /\ ~Raised(last'.res))
        => /\ DOMAIN ns' = (DOMAIN ns) \cup {last'.key}
           /\ ns'[last'.key] = last'.val
           /\ \A n \in (DOMAIN ns) \ {last'.key} : ns'[n] = ns[n]
           /\ Len(scopes') = Len(scopes)
           /\ \A i \in 1..(Len(scopes) - 1) : scopes'[i] = scopes[i]
           /\ scopes # <<>> => scopes'[Len(scopes)] = Innermost \cup {last'.key}]_vars

\* C17: x was accepted in the second of two open scopes.
InsertedInInnerScope ==
    /\ last.op = "insert"
    /\ ~Raised(last.res)
    /\ last.key = <<"x">>
    /\ Len(scopes) = 2
    /\ <<"x">> \in scopes[2]
    /\ <<"x">> \notin scopes[1]

\* C19: every name recorded in a scope set is bound, and exit_scope never
\* fails on a missing key.
RecordedNamesBound ==
    /\ Flatten(scopes) \subseteq DOMAIN ns
    /\ ~(last.op = "exit_scope" /\ last.res.exc = "KeyError")

\* C20 as stated: a failed enter_scope leaves the mapping and the scope list
\* as they were.
EnterScopeAtomic ==
    [][(last'.op = "enter_scope" /\ Raised(last'.res)) => StateUnchanged]_vars

\* C20 as amended: a failed enter_scope leaves its set pushed; the bindings
\* that existed are unchanged and the newly bound names are those recorded in
\* the pushed set.
FailedEnterKeepsPushedScope ==
    [][(last'.op = "enter_scope" /\ Raised(last'.res))
        => /\ Len(scopes') = Len(scopes) + 1
           /\ SubSeq(scopes', 1, Len(scopes)) = scopes
           /\ \A n \in DOMAIN ns : n \in DOMAIN ns' /\ ns'[n] = ns[n]
           /\ (DOMAIN ns') \ (DOMAIN ns) = scopes'[Len(scopes')]
           /\ scopes'[Len(scopes')] \subseteq MutableNames]_vars

\* C20: enter_scope raised NamespaceCollision and its empty set is the only
\* open scope.
EnterScopeFailed ==
    /\ last.op = "enter_scope"
    /\ last.res.exc = "NamespaceCollision"
    /\ scopes = <<{}>>
    /\ MutableNames \subseteq DOMAIN ns

\* C14: when an exception raised in a block reaches the guard of the block,
\* the release leaves the number of open scopes as it was before the
\* enter_scope of the block, the names recorded in the block's scope unbound,
\* and the same exception propagating.
GuardReleasesOnError ==
    [][(last'.op = "with_exit" /\ pending # "none")
        => /\ Len(scopes') = guards[Len(guards)]
           /\ \A n \in Innermost : n \notin DOMAIN ns'
           /\ pending' = pending]_vars

\* C15 as stated: the three providers of __init__ are queried once at
\* construction and at each clear() and by no other call, and get_mutable_vars
\* is queried at most once between construction or a clear() and the next
\* clear().
MutableMergedOnce ==
    /\ last.op \in {"new", "clear"}
       => queried = <<"get_types", "get_constant_vars", "get_builtin_functions">>
    /\ last.op \notin {"new", "clear"}
       => Range(queried) \subseteq {"get_mutable_vars"}
    /\ ~(merged /\ "get_mutable_vars" \in Range(queried))

\* C15 as amended: the three providers of __init__ are queried once at
\* construction and at each clear() and by no other call; get_mutable_vars is
\* queried once by every enter_scope that finds no scope open, and by no
\* other call.
MutableMergedPerOutermostEntry ==
    [][/\ last'.op = "clear"
          => queried' = <<"get_types", "get_constant_vars", "get_builtin_functions">>
       /\ last'.op = "enter_scope"
          => queried' = IF scopes = <<>> THEN <<"get_mutable_vars">> ELSE <<>>
       /\ last'.op \notin {"clear", "enter_scope"} => queried' = <<>>]_vars

\* C15: the outermost scope is entered again, and get_mutable_vars queried
\* again, with no clear() since it was queried before.
MergedAgain ==
    /\ last.op = "enter_scope"
    /\ ~Raised(last.res)
    /\ queried = <<"get_mutable_vars">>
    /\ merged
    /\ Len(scopes) = 1

\* C16: the first get_namespace() constructs an instance and every later one
\* returns that instance, in the state the calls made on it left; no second
\* instance is constructed and clear() does not replace the held one.
SingletonHeld ==
    [][/\ constructed' <= 1
       /\ (last'.op = "get_namespace" /\ _namespace = "unset")
          => (constructed' = constructed + 1 /\ _namespace' # "unset")
       /\ last'.op = "get_namespace" => last'.res = Return(_namespace')
       /\ _namespace # "unset"
          => /\ _namespace' = _namespace
             /\ constructed' = constructed
             /\ last'.op = "get_namespace" => StateUnchanged]_vars

\* C16: a later get_namespace() returned the instance, with a binding made
\* through the first reference.
SingletonReturnedAgain ==
    /\ last.op = "get_namespace"
    /\ last.res = Return(_namespace)
    /\ constructed = 1
    /\ <<"I","f">> \in DOMAIN ns

====
